---- MODULE Spec2Model ----
(***************************************************************************)
(* Model of scraper.py: the race-result scraper for the two netkeiba page  *)
(* layouts (NAR = local, JRA = central).                                   *)
(*                                                                         *)
(* Strings are sequences of tokens.  A token stands for one or more source *)
(* characters; the Japanese literals of the source are written with ASCII  *)
(* stand-ins (named next to each literal).  The empty string '' is << >>.  *)
(* Python's None is modelled by records with a `present' flag, and a call  *)
(* of the browser-automation library that throws by a `raises' flag on the *)
(* element or collection it is made on.                                    *)
(***************************************************************************)
EXTENDS Integers, Sequences, FiniteSets, TLC

VARIABLES
    pc,                  \* position of the single task in main / scrape_race_data
    argv,                \* sys.argv[1:], the command-line arguments
    playwright,          \* the async_playwright() context: "none", "started", "stopped"
    browser,             \* the headless browser: "none", "open", "closed"
    page,                \* whether browser.new_page() has returned a page
    dom,                 \* the rendered page, as the DOM queries see it
    race_type,           \* local of scrape_race_data
    race_id,             \* local of scrape_race_data
    race_info,           \* dict built by extract_race_info
    horses,              \* list built by extract_horses_data
    table_rows_selector, \* local of extract_horses_data
    rows,                \* the row collection being iterated (horses / corner / lap)
    idx,                 \* 1-based index of the next row of the running for loop
    corner_data,         \* dict built by extract_corner_data
    lap_data,            \* dict built by extract_lap_times
    result,              \* the record returned by scrape_race_data (as a 0/1-element sequence)
    exc,                 \* an exception is propagating out of scrape_race_data
    ran,                 \* the extraction passes that have been entered
    exitCode,            \* process exit status: -1 while running
    outFile              \* files written: sequence of [name, content]

vars == <<pc, argv, playwright, browser, page, dom, race_type, race_id, race_info,
          horses, table_rows_selector, rows, idx, corner_data, lap_data, result,
          exc, ran, exitCode, outFile>>

----------------------------------------------------------------------------
(* Bounds of the model *)

\* query parameters of a generated URL
MaxParams == 2
\* rows of a generated results table
MaxRows == 3
\* rows of a generated corner table
MaxCornerRows == 2
\* rows of a generated lap table
MaxLapRows == 3

----------------------------------------------------------------------------
(* Sequences, strings and dicts *)

RECURSIVE SeqsUpTo(_, _)
\* all sequences over S of length <= n
SeqsUpTo(S, n) ==
    IF n = 0 THEN {<< >>}
    ELSE LET shorter == SeqsUpTo(S, n - 1)
         IN  shorter \cup {Append(s, x) : s \in {t \in shorter : Len(t) = n - 1}, x \in S}

RECURSIVE Join(_, _)
\* sep.join(parts)
Join(parts, sep) ==
    IF parts = << >> THEN << >>
    ELSE IF Len(parts) = 1 THEN Head(parts)
    ELSE Head(parts) \o sep \o Join(Tail(parts), sep)

\* `pat in s' for Python strings: pat occurs as a contiguous substring of s
IsSubstr(pat, s) ==
    \E i \in 0..(Len(s) - Len(pat)) :
        \A j \in 1..Len(pat) : s[i + j] = pat[j]

\* index of the first token of s that is in set, or Len(s) + 1 when there is none
FirstIn(s, set) ==
    IF \E i \in 1..Len(s) : s[i] \in set
    THEN CHOOSE i \in 1..Len(s) : s[i] \in set /\ \A j \in 1..(i - 1) : s[j] \notin set
    ELSE Len(s) + 1

RECURSIVE Split(_, _)
\* s.split(sep) for a one-token separator
Split(s, sep) ==
    LET i == FirstIn(s, {sep})
    IN  IF i > Len(s) THEN <<s>>
        ELSE <<SubSeq(s, 1, i - 1)>> \o Split(SubSeq(s, i + 1, Len(s)), sep)

\* the characters str.strip() removes (space, newline, no-break space)
Whitespace == {" ", "\n", "nbsp"}

RECURSIVE LStrip(_)
LStrip(s) ==
    IF s # << >> /\ Head(s) \in Whitespace THEN LStrip(Tail(s)) ELSE s

RECURSIVE RStrip(_)
RStrip(s) ==
    IF s # << >> /\ s[Len(s)] \in Whitespace THEN RStrip(SubSeq(s, 1, Len(s) - 1)) ELSE s

\* str.strip()
Strip(s) == RStrip(LStrip(s))

\* d[k] = v on a dict (a function from keys to values)
DictSet(d, k, v) ==
    [x \in (DOMAIN d) \cup {k} |-> IF x = k THEN v ELSE d[x]]

\* d.get(k, default)
DictGet(d, k, default) ==
    IF k \in DOMAIN d THEN d[k] ELSE default

\* the empty dict {}
EmptyDict == [x \in {} |-> << >>]

----------------------------------------------------------------------------
(* URL handling: extract_race_id and detect_race_type *)

\* urlparse(url).netloc: what follows "://" up to the first "/", "?" or "#"
Netloc(url) ==
    IF Len(url) >= 2 /\ url[2] = "://"
    THEN LET rest == SubSeq(url, 3, Len(url))
         IN  SubSeq(rest, 1, FirstIn(rest, {"/", "?", "#"}) - 1)
    ELSE << >>

\* urlparse raises ValueError("Invalid IPv6 URL") on unbalanced brackets in the netloc
UrlparseRaises(url) ==
    LET n == Netloc(url)
        has(c) == \E i \in 1..Len(n) : n[i] = c
    IN  has("[") # has("]")

\* urlparse(url).query: between the first "?" and the first "#"
UrlQuery(url) ==
    LET nofrag == SubSeq(url, 1, FirstIn(url, {"#"}) - 1)
        q == FirstIn(nofrag, {"?"})
    IN  SubSeq(nofrag, q + 1, Len(nofrag))

\* the (name, value) pairs parse_qs keeps: fields without "=" and fields with a
\* blank value are dropped (keep_blank_values is False)
QsPairs(query) ==
    LET fields == Split(query, "&")
        pair(f) == LET e == FirstIn(f, {"="})
                   IN  <<SubSeq(f, 1, e - 1), SubSeq(f, e + 1, Len(f))>>
        kept(f) == f # << >> /\ FirstIn(f, {"="}) <= Len(f) /\ pair(f)[2] # << >>
        keptFields == SelectSeq(fields, kept)
    IN  [i \in 1..Len(keptFields) |-> pair(keptFields[i])]

\* parse_qs(query): name -> list of values, in order of appearance
parse_qs(query) ==
    LET pairs == QsPairs(query)
        names == {pairs[i][1] : i \in 1..Len(pairs)}
        valuesOf(n) == LET mine == SelectSeq(pairs, LAMBDA p : p[1] = n)
                       IN  [i \in 1..Len(mine) |-> mine[i][2]]
    IN  [n \in names |-> valuesOf(n)]

Unknown == <<"unknown">>

\* extract_race_id(url)
extract_race_id(url) ==
    IF UrlparseRaises(url) THEN Unknown
    ELSE DictGet(parse_qs(UrlQuery(url)), <<"race_id">>, << << >> >>)[1]

\* "nar.netkeiba.com" and "race.netkeiba.com"
NarMarker == <<"nar", ".netkeiba.com">>
JraMarker == <<"race", ".netkeiba.com">>

\* detect_race_type(url)
detect_race_type(url) ==
    IF IsSubstr(NarMarker, url) THEN "nar"
    ELSE IF IsSubstr(JraMarker, url) THEN "jra"
    ELSE "unknown"

\* generated URLs: https://<host><path>[?<param>&<param>...]
Hosts == {NarMarker, JraMarker, <<"db", ".netkeiba.com">>, <<"[", "db", ".netkeiba.com">>}
Paths == {<<"/", "race", "/", "result.html">>, <<"/", "nar", ".netkeiba.com">>}
Params == {<<"race_id", "=", "202401">>, <<"race_id", "=">>, <<"ref", "=", "race", ".netkeiba.com">>}
Queries == {IF ps = << >> THEN << >> ELSE <<"?">> \o Join(ps, <<"&">>) : ps \in SeqsUpTo(Params, MaxParams)}
Urls == {<<"https", "://">> \o h \o p \o q : h \in Hosts, p \in Paths, q \in Queries}


----------------------------------------------------------------------------
(* The rendered page, as seen through query_selector / query_selector_all / *)
(* inner_text.  query_selector returns None for an element that is not     *)
(* present; a call made on an element or collection whose `raises' flag is *)
(* set throws.                                                             *)

Elem(text) == [present |-> TRUE, raises |-> FALSE, text |-> text]
NoElem == [present |-> FALSE, raises |-> FALSE, text |-> << >>]
BadElem == [present |-> TRUE, raises |-> TRUE, text |-> << >>]

List(items) == [raises |-> FALSE, items |-> items]
BadList == [raises |-> TRUE, items |-> << >>]

\* stand-ins: "da" = U+30C0 (dirt), "shiba" = U+829D (turf), "ryo" = U+826F,
\* "yaya" = U+7A0D, "omo" = U+91CD, "fu" = U+4E0D, "hare" = U+6674,
\* "nen" / "gatsu" / "nichi" = the year / month / day characters
DistanceText == <<"da", "1", "5", "0", "0", "m">>
TitleText == <<"Derby", " ", "2", "0", "2", "4", "nen", "3", "gatsu", "1", "0", "nichi", "\n">>

\* the parts of the page extract_race_info reads
NameElems == {Elem(<<"Derby", "\n">>), Elem(<<" ">>), NoElem, BadElem}
Data01Lists ==
    { List(<< >>), BadList,
      List(<<Elem(DistanceText), Elem(<<" ", "ryo">>)>>),
      List(<<Elem(DistanceText), BadElem, Elem(<<"ryo">>)>>),
      List(<<Elem(<<"fu", "ryo">>), Elem(<<"shiba", "2", "0", "0", "0">>)>>),
      List(<<Elem(<<"hare">>)>>) }
Data02Lists ==
    { List(<< >>), BadList,
      List(<<Elem(<<"sarakei", "ippan", " ", "A", "2">>)>>),
      List(<<Elem(<<"G", "1">>), Elem(<<"teiryo">>)>>) }
NumElems == {Elem(<<"1", "1", "R">>), Elem(<<"R">>), NoElem, BadElem}
TitleElems == {Elem(TitleText), Elem(<<"Derby">>), NoElem, BadElem}

Infos ==
    [name : NameElems, data01 : Data01Lists, data02 : Data02Lists,
     num : NumElems, title : TitleElems]

\* a row of the results table: its td cells and the sub-elements the code reads
MkRow(name, ncells, passage, raises) ==
    [ncells |-> ncells, raises |-> raises,
     rank |-> Elem(<<"1">>), frame |-> Elem(<<"2", "\n">>), horse_num |-> NoElem,
     horse_name |-> Elem(name), time |-> Elem(<<"1:34.5">>),
     last_3f |-> <<" ", "35.1">>, passage |-> passage]

RowSamples ==
    { MkRow(<<"A">>, 15, Elem(<<"1", "-", "1">>), FALSE),
      MkRow(<<"B">>, 13, NoElem, FALSE),
      MkRow(<<"C">>, 15, Elem(<<"nbsp">>), FALSE),
      MkRow(<<"D">>, 15, Elem(<<" ", "3", "\n">>), FALSE),
      MkRow(<<"E">>, 15, Elem(<< >>), FALSE),
      MkRow(<<"F">>, 12, NoElem, FALSE),
      MkRow(<<"G">>, 11, NoElem, FALSE),
      MkRow(<<"H">>, 15, Elem(<<"2">>), TRUE),
      MkRow(<<"I">>, 14, BadElem, FALSE) }

\* a row of table.Corner_Num: its `th strong' header and its first td
MkCornerRow(header, cell, raises) == [raises |-> raises, header |-> header, cell |-> cell]

CornerRowSamples ==
    { MkCornerRow(Elem(<<"1">>), Elem(<<"3", ",", "4">>), FALSE),
      MkCornerRow(Elem(<<"2">>), Elem(<<"4", ",", "3">>), FALSE),
      MkCornerRow(NoElem, Elem(<<"x">>), FALSE),
      MkCornerRow(Elem(<<"3">>), NoElem, FALSE),
      MkCornerRow(Elem(<<"4">>), BadElem, FALSE),
      MkCornerRow(NoElem, NoElem, TRUE) }

\* a row of table.Race_HaronTime: its th cells and its td cells
MkLapRow(th, td, raises) == [raises |-> raises, th |-> th, td |-> td]

LapRowSamples ==
    { MkLapRow(<<Elem(<<"200m">>), Elem(<<"400m">>)>>, << >>, FALSE),
      MkLapRow(<< >>, <<Elem(<<"12.3">>), Elem(<<"24.0">>)>>, FALSE),
      MkLapRow(<< >>, <<Elem(<<"12.3">>), BadElem>>, FALSE),
      MkLapRow(<< >>, << >>, TRUE) }

\* table.Race_HaronTime: absent, or present with its tbody rows
MkLapTable(present, raises, lrows) == [present |-> present, raises |-> raises, rows |-> lrows]

LapTables ==
    {MkLapTable(FALSE, FALSE, << >>), MkLapTable(TRUE, TRUE, << >>)}
    \cup {MkLapTable(TRUE, FALSE, r) : r \in SeqsUpTo(LapRowSamples, MaxLapRows)}

\* which results table the page holds: "primary" (matched by the layout's
\* first selector), "fallback" (matched only by the looser one), "absent"
Tables == {"primary", "fallback", "absent"}

NoDom ==
    [info |-> [name |-> NoElem, data01 |-> List(<< >>), data02 |-> List(<< >>),
               num |-> NoElem, title |-> NoElem],
     table |-> "absent", rows |-> List(<< >>), corner |-> List(<< >>),
     lap |-> MkLapTable(FALSE, FALSE, << >>)]

BaseDom ==
    [info |-> [name |-> Elem(<<"Derby", "\n">>),
               data01 |-> List(<<Elem(DistanceText), Elem(<<" ", "ryo">>)>>),
               data02 |-> List(<<Elem(<<"G", "1">>), Elem(<<"teiryo">>)>>),
               num |-> Elem(<<"1", "1", "R">>), title |-> Elem(TitleText)],
     table |-> "primary",
     rows |-> List(<<MkRow(<<"A">>, 15, Elem(<<"1", "-", "1">>), FALSE)>>),
     corner |-> List(<<MkCornerRow(Elem(<<"1">>), Elem(<<"3", ",", "4">>), FALSE)>>),
     lap |-> MkLapTable(TRUE, FALSE, <<MkLapRow(<<Elem(<<"200m">>)>>, << >>, FALSE),
                                    MkLapRow(<< >>, <<Elem(<<"12.3">>)>>, FALSE),
                                    MkLapRow(<< >>, <<Elem(<<"12.3">>)>>, FALSE)>>)]

\* the pages a run may load: the base page with one part varied
Doms ==
    {[BaseDom EXCEPT !.info = i] : i \in Infos}
    \cup {[BaseDom EXCEPT !.table = t, !.rows = r] :
              t \in Tables, r \in {BadList} \cup {List(s) : s \in SeqsUpTo(RowSamples, MaxRows)}}
    \cup {[BaseDom EXCEPT !.corner = c] :
              c \in {BadList} \cup {List(s) : s \in SeqsUpTo(CornerRowSamples, MaxCornerRows)}}
    \cup {[BaseDom EXCEPT !.lap = l] : l \in LapTables}

\* the command lines of a run: no argument, or one URL
PipelineUrls ==
    { <<"https", "://">> \o NarMarker \o <<"/", "race", "/", "result.html", "?", "race_id", "=", "202401">>,
      <<"https", "://">> \o JraMarker \o <<"/", "race", "/", "result.html">>,
      <<"https", "://", "db", ".netkeiba.com", "/", "race", "/", "result.html", "?", "race_id", "=">> }
Argvs == {<< >>} \cup {<<u>> : u \in PipelineUrls}


----------------------------------------------------------------------------
(* extract_race_info: the steps inside its single try block.  Each step    *)
(* maps the dict built so far to [d: the dict after the step, raised:      *)
(* whether a call of the step threw].                                      *)

Digits == {"0", "1", "2", "3", "4", "5", "6", "7", "8", "9"}

Step(d, raised) == [d |-> d, raised |-> raised]

\* race_title_elem = query_selector('.RaceName'); race_name = inner_text().strip()
InfoNameStep(info, d) ==
    IF info.name.raises THEN Step(d, TRUE)
    ELSE IF info.name.present THEN Step(DictSet(d, "race_name", Strip(info.name.text)), FALSE)
    ELSE Step(d, FALSE)

\* 'm' in text and ('da' in text or 'shiba' in text)
IsDistance(text) ==
    IsSubstr(<<"m">>, text) /\ (IsSubstr(<<"da">>, text) \/ IsSubstr(<<"shiba">>, text))

\* the four track conditions: ryo, yaya-omo, omo, fu-ryo
TrackConditions == {<<"ryo">>, <<"yaya", "omo">>, <<"omo">>, <<"fu", "ryo">>}

RECURSIVE Data01Loop(_, _)
\* for item in race_data_items: ...
Data01Loop(items, d) ==
    IF items = << >> THEN Step(d, FALSE)
    ELSE IF Head(items).raises THEN Step(d, TRUE)
    ELSE LET text == Strip(Head(items).text)
             d2 == IF IsDistance(text) THEN DictSet(d, "distance", text)
                   ELSE IF text \in TrackConditions THEN DictSet(d, "track_condition", text)
                   ELSE d
         IN  Data01Loop(Tail(items), d2)

\* race_data_items = query_selector_all('.RaceData01 span') and its loop
InfoData01Step(info, d) ==
    IF info.data01.raises THEN Step(d, TRUE) ELSE Data01Loop(info.data01.items, d)

\* the literal class names: shinba, mishori, 1..3-sho class, open, G3, G2, G1
ClassLiterals ==
    { <<"shinba">>, <<"mishori">>, <<"1", "shoclass">>, <<"2", "shoclass">>,
      <<"3", "shoclass">>, <<"open">>, <<"G", "3">>, <<"G", "2">>, <<"G", "1">> }

\* ('A' in text and any(char.isdigit() ...)) or 'sarakei' in text or text in [...]
IsClass(text) ==
    \/ IsSubstr(<<"A">>, text) /\ \E i \in 1..Len(text) : text[i] \in Digits
    \/ IsSubstr(<<"sarakei">>, text)
    \/ text \in ClassLiterals

RECURSIVE Data02Loop(_, _)
\* for item in race_data2_items: ...
Data02Loop(items, d) ==
    IF items = << >> THEN Step(d, FALSE)
    ELSE IF Head(items).raises THEN Step(d, TRUE)
    ELSE LET text == Strip(Head(items).text)
         IN  Data02Loop(Tail(items), IF IsClass(text) THEN DictSet(d, "race_class", text) ELSE d)

\* race_data2_items = query_selector_all('.RaceData02 span') and its loop
InfoData02Step(info, d) ==
    IF info.data02.raises THEN Step(d, TRUE) ELSE Data02Loop(info.data02.items, d)

\* re.search(r'(\d+)R?', text): group(1) is the first maximal run of digits;
\* << >> when there is no match
FirstDigitRun(text) ==
    LET i == FirstIn(text, Digits)
        rest == SubSeq(text, i, Len(text))
        stop == IF \E j \in 1..Len(rest) : rest[j] \notin Digits
                THEN CHOOSE j \in 1..Len(rest) :
                        rest[j] \notin Digits /\ \A k \in 1..(j - 1) : rest[k] \in Digits
                ELSE Len(rest) + 1
    IN  SubSeq(rest, 1, stop - 1)

\* race_num_elem = query_selector('.RaceNum') ...
InfoNumStep(info, d) ==
    IF info.num.raises THEN Step(d, TRUE)
    ELSE IF info.num.present /\ FirstDigitRun(Strip(info.num.text)) # << >>
    THEN Step(DictSet(d, "race_number", FirstDigitRun(Strip(info.num.text))), FALSE)
    ELSE Step(d, FALSE)

\* a match of (\d{4})nen(\d{1,2})gatsu(\d{1,2})nichi starting at i, with a
\* month of ml digits and a day of dl digits
DateMatchAt(text, i, ml, dl) ==
    /\ i + 6 + ml + dl <= Len(text)
    /\ \A k \in 0..3 : text[i + k] \in Digits
    /\ text[i + 4] = "nen"
    /\ \A k \in 1..ml : text[i + 4 + k] \in Digits
    /\ text[i + 5 + ml] = "gatsu"
    /\ \A k \in 1..dl : text[i + 5 + ml + k] \in Digits
    /\ text[i + 6 + ml + dl] = "nichi"

\* str.zfill(2)
ZFill2(s) == IF Len(s) < 2 THEN <<"0">> \o s ELSE s

\* re.search of the date pattern: << >> when there is no match, else
\* <<year, month, day>> of the leftmost match
DateSearch(text) ==
    LET hits == {<<i, ml, dl>> \in (1..Len(text)) \X (1..2) \X (1..2) : DateMatchAt(text, i, ml, dl)}
    IN  IF hits = {} THEN << >>
        ELSE LET h == CHOOSE x \in hits : \A y \in hits : x[1] <= y[1]
                 i == h[1]
                 ml == h[2]
                 dl == h[3]
             IN  << SubSeq(text, i, i + 3),
                    SubSeq(text, i + 5, i + 4 + ml),
                    SubSeq(text, i + 6 + ml, i + 5 + ml + dl) >>

\* title_elem = query_selector('title') ... race_date = f"{year}/{month.zfill(2)}/{day.zfill(2)}"
InfoDateStep(info, d) ==
    IF info.title.raises THEN Step(d, TRUE)
    ELSE IF info.title.present /\ DateSearch(Strip(info.title.text)) # << >>
    THEN LET g == DateSearch(Strip(info.title.text))
         IN  Step(DictSet(d, "race_date", g[1] \o <<"/">> \o ZFill2(g[2]) \o <<"/">> \o ZFill2(g[3])), FALSE)
    ELSE Step(d, FALSE)

\* if not race_info.get("race_name"): page_title = title text
InfoFallbackStep(info, d) ==
    IF DictGet(d, "race_name", << >>) # << >> THEN Step(d, FALSE)
    ELSE IF info.title.raises THEN Step(d, TRUE)
    ELSE IF info.title.present THEN Step(DictSet(d, "page_title", Strip(info.title.text)), FALSE)
    ELSE Step(d, FALSE)


----------------------------------------------------------------------------
(* extract_horses_data *)

\* minimum td count of a data row, and the fixed column offsets (the time is
\* read from cells[7], which every data row has)
NarMinCells == 12
JraMinCells == 13
Last3fIndex == 11
JraCornerPassageIndex == 12

\* table_selector / table_rows_selector chosen from race_type
PrimaryRowsSelector(rt) ==
    IF rt = "nar" THEN "table.RaceTable01.ResultMain tbody tr"
    ELSE "table.RaceTable01.RaceCommon_Table tbody tr"

\* table_rows_selector after the fallback wait succeeded
FallbackRowsSelector(rt) ==
    IF rt = "nar" THEN "table.RaceTable01 tbody tr" ELSE "table.RaceCommon_Table tbody tr"

\* if len(cells) < 12 (nar) / < 13 (jra, unknown): continue
MinCells(rt) == IF rt = "nar" THEN NarMinCells ELSE JraMinCells

\* corner_passage_index: None (<< >>) for nar, 12 otherwise
CornerPassageIndex(rt) == IF rt = "nar" THEN << >> ELSE <<JraCornerPassageIndex>>

\* `await e.inner_text() if e else ""'
TextOrEmpty(e) == IF e.present THEN e.text ELSE << >>

\* the text read for corner_passage: "" unless the index is set and the cell exists
CornerPassageText(row, rt) ==
    LET cpi == CornerPassageIndex(rt)
    IN  IF cpi # << >> /\ cpi[1] # 0 /\ row.ncells > cpi[1] THEN TextOrEmpty(row.passage) ELSE << >>

\* whether a call made while processing this row throws
RowRaises(row, rt) ==
    \/ row.raises
    \/ /\ row.ncells >= MinCells(rt)
       /\ \/ \E e \in {row.rank, row.frame, row.horse_num, row.horse_name, row.time} :
                e.present /\ e.raises
          \/ LET cpi == CornerPassageIndex(rt)
             IN  cpi # << >> /\ row.ncells > cpi[1] /\ row.passage.present /\ row.passage.raises

\* horse_data of a row that is processed to the end
HorseData(row, rt) ==
    LET base == [rank |-> Strip(TextOrEmpty(row.rank)),
                 frame |-> Strip(TextOrEmpty(row.frame)),
                 horse_number |-> Strip(TextOrEmpty(row.horse_num)),
                 horse_name |-> Strip(TextOrEmpty(row.horse_name)),
                 time |-> Strip(TextOrEmpty(row.time)),
                 last_3f |-> Strip(IF row.ncells > Last3fIndex THEN row.last_3f ELSE << >>)]
        corner_passage == CornerPassageText(row, rt)
    IN  IF corner_passage # << >>
        THEN DictSet(base, "corner_passage", Strip(corner_passage))
        ELSE base

----------------------------------------------------------------------------
(* extract_corner_data *)

\* whether a call made while processing this corner row throws
CornerRowRaises(row) ==
    \/ row.raises
    \/ row.header.present /\ row.header.raises
    \/ row.header.present /\ row.cell.present /\ row.cell.raises

\* corner_data after the body of the loop for a row that does not throw
CornerRowUpdate(row, d) ==
    IF row.header.present /\ row.cell.present
    THEN DictSet(d, <<"corner_">> \o row.header.text, row.cell.text)
    ELSE d

----------------------------------------------------------------------------
(* extract_lap_times *)

\* whether reading the cells of a lap row throws
LapCellsRaise(row, cells) ==
    row.raises \/ \E i \in 1..Len(cells) : cells[i].raises

\* [await c.inner_text() for c in cells]
LapTexts(cells) == [i \in 1..Len(cells) |-> cells[i].text]


----------------------------------------------------------------------------
(* The program: main, scrape_race_data and the four extraction passes *)

Init ==
    /\ pc = "main"
    /\ argv \in Argvs
    /\ playwright = "none"
    /\ browser = "none"
    /\ page = FALSE
    /\ dom = NoDom
    /\ race_type = ""
    /\ race_id = << >>
    /\ race_info = EmptyDict
    /\ horses = << >>
    /\ table_rows_selector = ""
    /\ rows = << >>
    /\ idx = 1
    /\ corner_data = EmptyDict
    /\ lap_data = EmptyDict
    /\ result = << >>
    /\ exc = FALSE
    /\ ran = {}
    /\ exitCode = -1
    /\ outFile = << >>

\* main: the usage check, then scrape_race_data(url)
Main ==
    /\ pc = "main"
    /\ IF Len(argv) < 1
       THEN pc' = "exited" /\ exitCode' = 1
       ELSE pc' = "pw_enter" /\ UNCHANGED exitCode
    /\ UNCHANGED <<argv, playwright, browser, page, dom, race_type, race_id, race_info,
                   horses, table_rows_selector, rows, idx, corner_data, lap_data, result,
                   exc, ran, outFile>>

\* async with async_playwright() as p: (entering the block)
PwEnter ==
    /\ pc = "pw_enter"
    /\ playwright' = "started"
    /\ pc' = "launch"
    /\ UNCHANGED <<argv, browser, page, dom, race_type, race_id, race_info, horses,
                   table_rows_selector, rows, idx, corner_data, lap_data, result, exc,
                   ran, exitCode, outFile>>

\* browser = await p.chromium.launch(headless=True)
Launch ==
    /\ pc = "launch"
    /\ \E ok \in BOOLEAN :
          IF ok THEN browser' = "open" /\ pc' = "new_page" /\ UNCHANGED exc
          ELSE exc' = TRUE /\ pc' = "pw_exit" /\ UNCHANGED browser
    /\ UNCHANGED <<argv, playwright, page, dom, race_type, race_id, race_info, horses,
                   table_rows_selector, rows, idx, corner_data, lap_data, result, ran,
                   exitCode, outFile>>

\* page = await browser.new_page(): before the try block, so a failure here
\* leaves scrape_race_data without running the finally clause
NewPage ==
    /\ pc = "new_page"
    /\ \E ok \in BOOLEAN :
          IF ok THEN page' = TRUE /\ pc' = "goto" /\ UNCHANGED exc
          ELSE exc' = TRUE /\ pc' = "pw_exit" /\ UNCHANGED page
    /\ UNCHANGED <<argv, playwright, browser, dom, race_type, race_id, race_info, horses,
                   table_rows_selector, rows, idx, corner_data, lap_data, result, ran,
                   exitCode, outFile>>

\* await page.goto(url, ...): the page is rendered, or the navigation fails / times out
Goto ==
    /\ pc = "goto"
    /\ \/ \E d \in Doms : dom' = d /\ pc' = "detect" /\ UNCHANGED exc
       \/ exc' = TRUE /\ pc' = "finally" /\ UNCHANGED dom
    /\ UNCHANGED <<argv, playwright, browser, page, race_type, race_id, race_info, horses,
                   table_rows_selector, rows, idx, corner_data, lap_data, result, ran,
                   exitCode, outFile>>

\* race_type = detect_race_type(url)
DetectRaceType ==
    /\ pc = "detect"
    /\ race_type' = detect_race_type(argv[1])
    /\ pc' = "extract_id"
    /\ UNCHANGED <<argv, playwright, browser, page, dom, race_id, race_info, horses,
                   table_rows_selector, rows, idx, corner_data, lap_data, result, exc,
                   ran, exitCode, outFile>>

\* race_id = extract_race_id(url)
ExtractRaceId ==
    /\ pc = "extract_id"
    /\ race_id' = extract_race_id(argv[1])
    /\ pc' = "info_name"
    /\ UNCHANGED <<argv, playwright, browser, page, dom, race_type, race_info, horses,
                   table_rows_selector, rows, idx, corner_data, lap_data, result, exc,
                   ran, exitCode, outFile>>

\* one step of extract_race_info's try block: on an exception the except
\* clause prints and the function returns the dict built so far
InfoStep(at, r, next) ==
    /\ pc = at
    /\ race_info' = r.d
    /\ pc' = IF r.raised THEN "horses_wait" ELSE next
    /\ ran' = ran \cup {"info"}
    /\ UNCHANGED <<argv, playwright, browser, page, dom, race_type, race_id, horses,
                   table_rows_selector, rows, idx, corner_data, lap_data, result, exc,
                   exitCode, outFile>>

InfoName == InfoStep("info_name", InfoNameStep(dom.info, EmptyDict), "info_data01")
InfoData01 == InfoStep("info_data01", InfoData01Step(dom.info, race_info), "info_data02")
InfoData02 == InfoStep("info_data02", InfoData02Step(dom.info, race_info), "info_num")
InfoNum == InfoStep("info_num", InfoNumStep(dom.info, race_info), "info_date")
InfoDate == InfoStep("info_date", InfoDateStep(dom.info, race_info), "info_fallback")
InfoFallback == InfoStep("info_fallback", InfoFallbackStep(dom.info, race_info), "horses_wait")

\* variant of HorsesWait in which the failure of both waits is not caught
HorsesWaitUncaught ==
    /\ pc = "horses_wait"
    /\ horses' = << >>
    /\ ran' = ran \cup {"horses"}
    /\ table_rows_selector' = IF dom.table = "fallback" THEN FallbackRowsSelector(race_type)
                              ELSE PrimaryRowsSelector(race_type)
    /\ IF dom.table = "absent"
       THEN exc' = TRUE /\ pc' = "finally"
       ELSE pc' = "horses_query" /\ UNCHANGED exc
    /\ UNCHANGED <<argv, playwright, browser, page, dom, race_type, race_id, race_info,
                   rows, idx, corner_data, lap_data, result, exitCode, outFile>>

\* extract_horses_data up to the table waits: the primary wait, on failure the
\* fallback wait, and `return []' when both fail
HorsesWait ==
    /\ pc = "horses_wait"
    /\ horses' = << >>
    /\ ran' = ran \cup {"horses"}
    /\ IF dom.table = "primary"
       THEN table_rows_selector' = PrimaryRowsSelector(race_type) /\ pc' = "horses_query"
       ELSE IF dom.table = "fallback"
       THEN table_rows_selector' = FallbackRowsSelector(race_type) /\ pc' = "horses_query"
       ELSE table_rows_selector' = PrimaryRowsSelector(race_type) /\ pc' = "corner_query"
    /\ UNCHANGED <<argv, playwright, browser, page, dom, race_type, race_id, race_info,
                   rows, idx, corner_data, lap_data, result, exc, exitCode, outFile>>

\* rows = await page.query_selector_all(table_rows_selector): outside any try,
\* an exception here escapes extract_horses_data
HorsesQuery ==
    /\ pc = "horses_query"
    /\ IF dom.rows.raises
       THEN exc' = TRUE /\ pc' = "finally" /\ UNCHANGED <<rows, idx>>
       ELSE rows' = dom.rows.items /\ idx' = 1 /\ pc' = "horses_row" /\ UNCHANGED exc
    /\ UNCHANGED <<argv, playwright, browser, page, dom, race_type, race_id, race_info,
                   horses, table_rows_selector, corner_data, lap_data, result, ran,
                   exitCode, outFile>>

\* variant of HorsesRow whose except clause leaves the loop (break, not continue)
HorsesRowBreak ==
    /\ pc = "horses_row"
    /\ idx <= Len(rows)
    /\ LET row == rows[idx]
       IN  IF RowRaises(row, race_type)
           THEN idx' = Len(rows) + 1 /\ UNCHANGED horses
           ELSE /\ idx' = idx + 1
                /\ IF row.ncells < MinCells(race_type) THEN UNCHANGED horses
                   ELSE horses' = Append(horses, HorseData(row, race_type))
    /\ UNCHANGED <<pc, argv, playwright, browser, page, dom, race_type, race_id, race_info,
                   table_rows_selector, rows, corner_data, lap_data, result, exc, ran,
                   exitCode, outFile>>

\* one iteration of `for row in rows' in extract_horses_data
HorsesRow ==
    /\ pc = "horses_row"
    /\ idx <= Len(rows)
    /\ LET row == rows[idx]
       IN  IF RowRaises(row, race_type) THEN UNCHANGED horses
           ELSE IF row.ncells < MinCells(race_type) THEN UNCHANGED horses
           ELSE horses' = Append(horses, HorseData(row, race_type))
    /\ idx' = idx + 1
    /\ UNCHANGED <<pc, argv, playwright, browser, page, dom, race_type, race_id, race_info,
                   table_rows_selector, rows, corner_data, lap_data, result, exc, ran,
                   exitCode, outFile>>

\* return horses
HorsesReturn ==
    /\ pc = "horses_row"
    /\ idx > Len(rows)
    /\ pc' = "corner_query"
    /\ rows' = << >>
    /\ idx' = 1
    /\ UNCHANGED <<argv, playwright, browser, page, dom, race_type, race_id, race_info,
                   horses, table_rows_selector, corner_data, lap_data, result, exc, ran,
                   exitCode, outFile>>

\* extract_corner_data: corner_rows = query_selector_all('table.Corner_Num tr')
CornerQuery ==
    /\ pc = "corner_query"
    /\ corner_data' = EmptyDict
    /\ ran' = ran \cup {"corner"}
    /\ IF dom.corner.raises
       THEN pc' = "lap_table" /\ UNCHANGED <<rows, idx>>
       ELSE rows' = dom.corner.items /\ idx' = 1 /\ pc' = "corner_row"
    /\ UNCHANGED <<argv, playwright, browser, page, dom, race_type, race_id, race_info,
                   horses, table_rows_selector, lap_data, result, exc, exitCode, outFile>>

\* variant of CornerRow whose except clause empties the dict
CornerRowDiscard ==
    /\ pc = "corner_row"
    /\ idx <= Len(rows)
    /\ IF CornerRowRaises(rows[idx])
       THEN pc' = "lap_table" /\ rows' = << >> /\ idx' = 1 /\ corner_data' = EmptyDict
       ELSE /\ corner_data' = CornerRowUpdate(rows[idx], corner_data)
            /\ idx' = idx + 1
            /\ UNCHANGED <<pc, rows>>
    /\ UNCHANGED <<argv, playwright, browser, page, dom, race_type, race_id, race_info,
                   horses, table_rows_selector, lap_data, result, exc, ran, exitCode,
                   outFile>>

\* one iteration of `for row in corner_rows'; an exception leaves the loop
\* through the except clause and corner_data is returned as it stands
CornerRow ==
    /\ pc = "corner_row"
    /\ idx <= Len(rows)
    /\ IF CornerRowRaises(rows[idx])
       THEN pc' = "lap_table" /\ rows' = << >> /\ idx' = 1 /\ UNCHANGED corner_data
       ELSE /\ corner_data' = CornerRowUpdate(rows[idx], corner_data)
            /\ idx' = idx + 1
            /\ UNCHANGED <<pc, rows>>
    /\ UNCHANGED <<argv, playwright, browser, page, dom, race_type, race_id, race_info,
                   horses, table_rows_selector, lap_data, result, exc, ran, exitCode,
                   outFile>>

\* return corner_data
CornerReturn ==
    /\ pc = "corner_row"
    /\ idx > Len(rows)
    /\ pc' = "lap_table"
    /\ rows' = << >>
    /\ idx' = 1
    /\ UNCHANGED <<argv, playwright, browser, page, dom, race_type, race_id, race_info,
                   horses, table_rows_selector, corner_data, lap_data, result, exc, ran,
                   exitCode, outFile>>


\* extract_lap_times: lap_table = query_selector('table.Race_HaronTime') and
\* rows = lap_table.query_selector_all('tbody tr')
LapTable ==
    /\ pc = "lap_table"
    /\ lap_data' = EmptyDict
    /\ ran' = ran \cup {"lap"}
    /\ IF dom.lap.raises \/ ~dom.lap.present
       THEN pc' = "assemble" /\ UNCHANGED rows
       ELSE rows' = dom.lap.rows /\ pc' = "lap_row0"
    /\ UNCHANGED <<argv, playwright, browser, page, dom, race_type, race_id, race_info,
                   horses, table_rows_selector, idx, corner_data, result, exc, exitCode,
                   outFile>>

\* if len(rows) >= 1: read the th texts of rows[0] into the local `distances'
LapRow0 ==
    /\ pc = "lap_row0"
    /\ IF Len(rows) >= 1 /\ ~LapCellsRaise(rows[1], rows[1].th)
       THEN pc' = "lap_row1" /\ UNCHANGED rows
       ELSE pc' = "assemble" /\ rows' = << >>
    /\ UNCHANGED <<argv, playwright, browser, page, dom, race_type, race_id, race_info,
                   horses, table_rows_selector, idx, corner_data, lap_data, result, exc,
                   ran, exitCode, outFile>>

\* if len(rows) >= 2: read the td texts of rows[1], then store `distances'
\* and `cumulative_times'
LapRow1 ==
    /\ pc = "lap_row1"
    /\ IF Len(rows) >= 2
       THEN IF LapCellsRaise(rows[2], rows[2].td)
            THEN pc' = "assemble" /\ rows' = << >> /\ UNCHANGED lap_data
            ELSE /\ lap_data' = DictSet(DictSet(lap_data, "distances", LapTexts(rows[1].th)),
                                        "cumulative_times", LapTexts(rows[2].td))
                 /\ pc' = "lap_row2"
                 /\ UNCHANGED rows
       ELSE pc' = "lap_row2" /\ UNCHANGED <<rows, lap_data>>
    /\ UNCHANGED <<argv, playwright, browser, page, dom, race_type, race_id, race_info,
                   horses, table_rows_selector, idx, corner_data, result, exc, ran,
                   exitCode, outFile>>

\* variant of LapRow2 whose except clause empties the dict
LapRow2Discard ==
    /\ pc = "lap_row2"
    /\ IF Len(rows) >= 3
       THEN IF LapCellsRaise(rows[3], rows[3].td)
            THEN lap_data' = EmptyDict
            ELSE lap_data' = DictSet(lap_data, "interval_times", LapTexts(rows[3].td))
       ELSE UNCHANGED lap_data
    /\ pc' = "assemble"
    /\ rows' = << >>
    /\ UNCHANGED <<argv, playwright, browser, page, dom, race_type, race_id, race_info,
                   horses, table_rows_selector, idx, corner_data, result, exc, ran,
                   exitCode, outFile>>

\* if len(rows) >= 3: read the td texts of rows[2], then store `interval_times';
\* return lap_data
LapRow2 ==
    /\ pc = "lap_row2"
    /\ IF Len(rows) >= 3 /\ ~LapCellsRaise(rows[3], rows[3].td)
       THEN lap_data' = DictSet(lap_data, "interval_times", LapTexts(rows[3].td))
       ELSE UNCHANGED lap_data
    /\ pc' = "assemble"
    /\ rows' = << >>
    /\ UNCHANGED <<argv, playwright, browser, page, dom, race_type, race_id, race_info,
                   horses, table_rows_selector, idx, corner_data, result, exc, ran,
                   exitCode, outFile>>

\* result = {...}; return result
Assemble ==
    /\ pc = "assemble"
    /\ result' = << [race_url |-> argv[1], race_id |-> race_id, race_type |-> race_type,
                     race_info |-> race_info, horses |-> horses,
                     corner_passing_order |-> corner_data, lap_times |-> lap_data] >>
    /\ pc' = "finally"
    /\ UNCHANGED <<argv, playwright, browser, page, dom, race_type, race_id, race_info,
                   horses, table_rows_selector, rows, idx, corner_data, lap_data, exc,
                   ran, exitCode, outFile>>

\* variant of Finally that leaves the try block without closing the browser
FinallyWithoutClose ==
    /\ pc = "finally"
    /\ pc' = "pw_exit"
    /\ UNCHANGED <<argv, playwright, browser, page, dom, race_type, race_id, race_info,
                   horses, table_rows_selector, rows, idx, corner_data, lap_data, result,
                   exc, ran, exitCode, outFile>>

\* finally: await browser.close()
Finally ==
    /\ pc = "finally"
    /\ browser' = "closed"
    /\ pc' = "pw_exit"
    /\ UNCHANGED <<argv, playwright, page, dom, race_type, race_id, race_info, horses,
                   table_rows_selector, rows, idx, corner_data, lap_data, result, exc,
                   ran, exitCode, outFile>>

\* leaving the async with block: the Playwright driver is stopped, which ends
\* every browser it launched; then the result or the exception reaches main
PwExit ==
    /\ pc = "pw_exit"
    /\ playwright' = "stopped"
    /\ browser' = IF browser = "open" THEN "closed" ELSE browser
    /\ pc' = IF exc THEN "main_except" ELSE "write"
    /\ UNCHANGED <<argv, page, dom, race_type, race_id, race_info, horses,
                   table_rows_selector, rows, idx, corner_data, lap_data, result, exc,
                   ran, exitCode, outFile>>

\* the file name main builds from the record
OutputFileName(rec) ==
    <<"output/race_data_">> \o DictGet(rec, "race_id", Unknown) \o <<".json">>

\* main after scrape_race_data returned: write the JSON file and print it;
\* an I/O error is caught by main's except clause
Write ==
    /\ pc = "write"
    /\ \/ /\ outFile' = Append(outFile, [name |-> OutputFileName(result[1]), content |-> result[1]])
          /\ exitCode' = 0
          /\ pc' = "exited"
          /\ UNCHANGED exc
       \/ /\ exc' = TRUE
          /\ pc' = "main_except"
          /\ UNCHANGED <<outFile, exitCode>>
    /\ UNCHANGED <<argv, playwright, browser, page, dom, race_type, race_id, race_info,
                   horses, table_rows_selector, rows, idx, corner_data, lap_data, result,
                   ran>>

\* except Exception as e: print(f"Error: {e}"); sys.exit(1)
MainExcept ==
    /\ pc = "main_except"
    /\ exitCode' = 1
    /\ pc' = "exited"
    /\ UNCHANGED <<argv, playwright, browser, page, dom, race_type, race_id, race_info,
                   horses, table_rows_selector, rows, idx, corner_data, lap_data, result,
                   exc, ran, outFile>>

Next ==
    \/ Main \/ PwEnter \/ Launch \/ NewPage \/ Goto
    \/ DetectRaceType \/ ExtractRaceId
    \/ InfoName \/ InfoData01 \/ InfoData02 \/ InfoNum \/ InfoDate \/ InfoFallback
    \/ HorsesWait \/ HorsesQuery \/ HorsesRow \/ HorsesReturn
    \/ CornerQuery \/ CornerRow \/ CornerReturn
    \/ LapTable \/ LapRow0 \/ LapRow1 \/ LapRow2
    \/ Assemble \/ Finally \/ PwExit \/ Write \/ MainExcept

Spec == Init /\ [][Next]_vars

----------------------------------------------------------------------------
(* The two URL functions on their own, over the generated URLs: the state  *)
(* is that of scrape_race_data after a successful page.goto(url).          *)

InitUrl ==
    /\ pc = "detect"
    /\ argv \in {<<u>> : u \in Urls}
    /\ playwright = "started"
    /\ browser = "open"
    /\ page = TRUE
    /\ dom = BaseDom
    /\ race_type = ""
    /\ race_id = << >>
    /\ race_info = EmptyDict
    /\ horses = << >>
    /\ table_rows_selector = ""
    /\ rows = << >>
    /\ idx = 1
    /\ corner_data = EmptyDict
    /\ lap_data = EmptyDict
    /\ result = << >>
    /\ exc = FALSE
    /\ ran = {}
    /\ exitCode = -1
    /\ outFile = << >>

NextUrl == DetectRaceType \/ ExtractRaceId

SpecUrl == InitUrl /\ [][NextUrl]_vars


----------------------------------------------------------------------------
(* Properties *)

TableAbsentRun == "horses" \in ran /\ dom.table = "absent"

\* C2: when both table waits fail, extract_horses_data returns [], the
\* corner and lap passes still run, the record is assembled with horses = []
\* and main writes it and exits 0; no exception arises before the record is
\* assembled (the only failure left is an I/O error while writing).
C2_MissingTableIsNotFatal ==
    TableAbsentRun =>
        /\ horses = << >>
        /\ exc => result # << >>
        /\ pc \in {"finally", "pw_exit", "write", "main_except", "exited"} =>
              /\ {"corner", "lap"} \subseteq ran
              /\ Len(result) = 1
              /\ result[1].horses = << >>
        /\ (pc = "exited" /\ ~exc) =>
              /\ exitCode = 0
              /\ Len(outFile) = 1
              /\ outFile[1].content = result[1]

\* C2 witness: a finished run without results table whose record was written
C2_Witness ==
    /\ TableAbsentRun
    /\ pc = "exited"
    /\ exitCode = 0
    /\ Len(outFile) = 1
    /\ outFile[1].content.horses = << >>
    /\ DOMAIN outFile[1].content.lap_times # {}

\* the query of the URL holds a race_id field with a non-empty value
HasRaceIdParam(url) ==
    LET fields == Split(UrlQuery(url), "&")
    IN  \E i \in 1..Len(fields) :
            Len(fields[i]) >= 3 /\ fields[i][1] = "race_id" /\ fields[i][2] = "="

\* C3: for a URL without a (non-empty) race_id parameter extract_race_id
\* returns "unknown".
C3_MissingRaceIdIsUnknown ==
    (pc = "info_name" /\ ~HasRaceIdParam(argv[1])) => race_id = Unknown

\* C4: no HorseResult carries corner_passage with an empty value.
C4_CornerPassageNeverEmpty ==
    \A i \in 1..Len(horses) :
        "corner_passage" \in DOMAIN horses[i] => horses[i]["corner_passage"] # << >>

\* the layout variant by the host of the URL alone
HostVariant(url) ==
    IF IsSubstr(NarMarker, Netloc(url)) THEN "nar"
    ELSE IF IsSubstr(JraMarker, Netloc(url)) THEN "jra"
    ELSE "unknown"

\* C5: detect_race_type classifies by the host of the URL; a marker in the
\* path or the query does not count.
C5_VariantByHost ==
    pc \in {"extract_id", "info_name"} => race_type = HostVariant(argv[1])

\* extract_lap_times ran on a lap table and no call threw
LapNoError ==
    LET r == dom.lap.rows
    IN  /\ dom.lap.present
        /\ ~dom.lap.raises
        /\ Len(r) >= 1 => ~LapCellsRaise(r[1], r[1].th)
        /\ Len(r) >= 2 => ~LapCellsRaise(r[2], r[2].td)
        /\ Len(r) >= 3 => ~LapCellsRaise(r[3], r[3].td)

\* C6: without error, for a lap table of k rows, distances is present iff
\* k >= 1, cumulative_times iff k >= 2, interval_times iff k >= 3.
C6_LapKeysByRowCount ==
    (pc = "assemble" /\ LapNoError) =>
        LET k == Len(dom.lap.rows)
        IN  /\ "distances" \in DOMAIN lap_data <=> k >= 1
            /\ "cumulative_times" \in DOMAIN lap_data <=> k >= 2
            /\ "interval_times" \in DOMAIN lap_data <=> k >= 3

\* the rows of the results table that have the layout's minimum cell count
\* and are processed without error, in table order
GoodRows ==
    SelectSeq(dom.rows.items,
              LAMBDA row : row.ncells >= MinCells(race_type) /\ ~RowRaises(row, race_type))

\* extract_horses_data has iterated the rows of a table it found
HorsesLoopDone ==
    /\ "horses" \in ran
    /\ dom.table # "absent"
    /\ ~dom.rows.raises
    /\ pc \notin {"horses_wait", "horses_query", "horses_row"}

\* C7: an exception in one row skips only that row: the returned list holds
\* exactly the rows with enough cells that processed without error, in table
\* order, and no exception leaves the function because of a row.
C7_PerRowIsolation ==
    /\ HorsesLoopDone =>
          /\ Len(horses) = Len(GoodRows)
          /\ \A i \in 1..Len(horses) : horses[i] = HorseData(GoodRows[i], race_type)
    /\ (exc /\ "horses" \in ran /\ "corner" \notin ran) => dom.rows.raises

\* C7 witness: a failing row between two good rows, both of them returned
C7_Witness ==
    /\ HorsesLoopDone
    /\ Len(dom.rows.items) = 3
    /\ RowRaises(dom.rows.items[2], race_type)
    /\ Len(horses) = 2
    /\ horses[1]["horse_name"] # horses[2]["horse_name"]

\* the keys a step of extract_race_info stores when it runs on its own
OwnKeys(step) == DOMAIN step.d

\* C8: every field whose own extraction step succeeds is in the returned
\* mapping, whatever happened in the other steps.
C8_FieldByFieldIsolation ==
    (pc = "horses_wait" /\ "info" \in ran) =>
        /\ OwnKeys(InfoNameStep(dom.info, EmptyDict)) \subseteq DOMAIN race_info
        /\ OwnKeys(InfoData01Step(dom.info, EmptyDict)) \subseteq DOMAIN race_info
        /\ OwnKeys(InfoData02Step(dom.info, EmptyDict)) \subseteq DOMAIN race_info
        /\ OwnKeys(InfoNumStep(dom.info, EmptyDict)) \subseteq DOMAIN race_info
        /\ OwnKeys(InfoDateStep(dom.info, EmptyDict)) \subseteq DOMAIN race_info

\* extract_corner_data has returned
CornerDone == "corner" \in ran /\ pc # "corner_row" /\ ~dom.corner.raises

\* index of the first corner row whose processing throws, or one past the last row
FirstFailingCornerRow ==
    LET r == dom.corner.items
    IN  IF \E i \in 1..Len(r) : CornerRowRaises(r[i])
        THEN CHOOSE i \in 1..Len(r) :
                CornerRowRaises(r[i]) /\ \A j \in 1..(i - 1) : ~CornerRowRaises(r[j])
        ELSE Len(r) + 1

\* C9 as stated: after an error in the loop the mapping holds no entry of the
\* rows processed before the failing row.
C9_PartialCornerDataDiscarded ==
    (CornerDone /\ FirstFailingCornerRow <= Len(dom.corner.items)) => DOMAIN corner_data = {}

\* the indexes of the rows before the first failing row that have a header and a cell
KeptCornerRows ==
    {i \in 1..(FirstFailingCornerRow - 1) :
        dom.corner.items[i].header.present /\ dom.corner.items[i].cell.present}

\* C9 amended: the mapping holds exactly the corner_<N> entries of the rows
\* processed before the failing row (of all rows when none fails), each with
\* the text of the last such row of that label.
C9_PartialCornerDataKept ==
    CornerDone =>
        LET r == dom.corner.items
            key(i) == <<"corner_">> \o r[i].header.text
        IN  /\ DOMAIN corner_data = {key(i) : i \in KeptCornerRows}
            /\ \A i \in KeptCornerRows :
                  (\A j \in KeptCornerRows : key(j) = key(i) => j <= i)
                      => corner_data[key(i)] = r[i].cell.text

\* C9 witness: a good row followed by a failing row, the good row's entry returned
C9_Witness ==
    /\ CornerDone
    /\ FirstFailingCornerRow = 2
    /\ Len(dom.corner.items) = 2
    /\ DOMAIN corner_data = {<<"corner_", "1">>}

\* the first call of extract_lap_times that throws: 0 the table or rows query,
\* 1..3 the cells of that row, 4 none
LapErrorAt ==
    LET r == dom.lap.rows
    IN  IF dom.lap.raises THEN 0
        ELSE IF ~dom.lap.present THEN 4
        ELSE IF Len(r) >= 1 /\ LapCellsRaise(r[1], r[1].th) THEN 1
        ELSE IF Len(r) >= 2 /\ LapCellsRaise(r[2], r[2].td) THEN 2
        ELSE IF Len(r) >= 3 /\ LapCellsRaise(r[3], r[3].td) THEN 3
        ELSE 4

\* C10 as stated: any error in extract_lap_times leaves the mapping empty.
C10_LapErrorDiscardsAll ==
    (pc = "assemble" /\ LapErrorAt < 4) => DOMAIN lap_data = {}

\* C10 amended: an error before the first two rows are stored leaves the
\* mapping empty; an error while reading the third row leaves distances and
\* cumulative_times of the first two rows in the mapping, without interval_times.
C10_LapErrorKeepsStoredRows ==
    pc = "assemble" =>
        /\ LapErrorAt \in {0, 1, 2} => DOMAIN lap_data = {}
        /\ LapErrorAt = 3 =>
              /\ DOMAIN lap_data = {"distances", "cumulative_times"}
              /\ lap_data["distances"] = LapTexts(dom.lap.rows[1].th)
              /\ lap_data["cumulative_times"] = LapTexts(dom.lap.rows[2].td)

\* C10 witness: the third row threw after the first two rows were stored
C10_Witness ==
    /\ pc = "assemble"
    /\ LapErrorAt = 3
    /\ DOMAIN lap_data = {"distances", "cumulative_times"}

====
